---- MODULE Spec2Model ----
(***************************************************************************)
(* Model of dimos/simulation/stream.py: class SimulationStream.            *)
(*                                                                         *)
(* One driver instance is modelled together with its collaborators as far  *)
(* as the driver observes them: the simulator handle (open / closed), the  *)
(* ffmpeg child process (running / wedged / exited), and the buffered      *)
(* writer that subprocess.Popen puts in front of the child's stdin pipe.   *)
(* The caller constructs the instance and then calls stream() and          *)
(* cleanup(); SIGINT (KeyboardInterrupt) and the death of the child are    *)
(* environment actions that may fire at any position of the driver.        *)
(***************************************************************************)
EXTENDS Integers, Sequences, FiniteSets, TLC

\* ---------------------------------------------------------------- bounds
MaxSteps == 2        \* orchestrator.step() calls per stream() call
MaxCalls == 3        \* calls the caller makes (constructor included)
MaxInterrupts == 2   \* SIGINTs delivered
MaxFrames == 201     \* orchestrator.step() calls in the long-run specification

\* ------------------------------------------------------ program constants
\* Popen(command, stdin=PIPE) leaves bufsize at -1: proc.stdin is an
\* io.BufferedWriter of io.DEFAULT_BUFFER_SIZE bytes.
BUFFER_SIZE == 8192
\* frame_count % 100 == 0
REPORT_EVERY == 100
\* channels of the annotator's RGBA data and of the BGR frame after cvtColor
RGBA == 4
BGR == 3

\* Configurations explored: frames of 32x48 (4608 bytes, fits the writer's
\* buffer) and 64x48 (9216 bytes, larger than the buffer).
Widths == {32, 64}
Heights == {48}
Fps == {60}
\* The other configuration fields, at their default values.
CameraPaths == {"chest_cam"}
AnnotatorTypes == {"rgb"}
Transports == {"tcp"}
RtspUrls == {"rtsp://mediamtx:8554/stream"}

VARIABLES
  cfg,            \* self.width, .height, .fps, .camera_path, .annotator_type,
                  \* .transport, .rtsp_url, and whether usd_path was given
  pc,             \* position of the driver
  hist,           \* calls made by the caller so far
  outcome,        \* how the last call ended: "none" while running
  constructed,    \* __init__ has returned normally
  caller,         \* who invoked cleanup(): "stream", "direct" or "none"
  exc,            \* exception pending in stream()'s finally clause
  stage,          \* self.stage: "unset", "none" or "ok"
  render_product, \* self.render_product: <<>> if unset, else <<w, h>>
  proc,           \* self.proc: <<>> if unset, else the -s WxH and -r args
  annotator,      \* self.annotator attached to the render product
  encoder,        \* child process: "none", "running", "wedged", "exited"
  reaped,         \* proc.wait() has returned once (returncode is set)
  stdin,          \* proc.stdin: "none", "open", "closed"
  stdinBuf,       \* bytes held in proc.stdin's write buffer
  frame,          \* local frame: <<>> or <<w, h, channels>>
  frame_count,    \* local frame_count
  reports,        \* throughput reports printed by this stream() call
  steps,          \* orchestrator.step() calls completed
  written,        \* frames delivered in full to the pipe
  lastSize,       \* bytes of the frame delivered in full most recently
  part,           \* bytes of the frame in flight delivered so far
  simulator,      \* "open" or "closed"
  simCloses,      \* simulator.close() calls
  stdinCloses,    \* times the pipe's write end was really closed
  cleanupCalls,   \* cleanup() invocations
  cleanupDone,    \* cleanup() invocations that returned normally
  interrupts,     \* SIGINTs delivered so far
  intAt,          \* the positions at which they were delivered
  popens,         \* subprocess.Popen calls that launched a child
  renders,        \* create.render_product calls
  closedSteps     \* orchestrator.step() calls made on a closed simulator

vars == <<cfg, pc, hist, outcome, constructed, caller, exc, stage,
          render_product, proc, annotator, encoder, reaped, stdin, stdinBuf,
          frame, frame_count, reports, steps, written, lastSize, part,
          simulator, simCloses, stdinCloses, cleanupCalls, cleanupDone,
          interrupts, intAt, popens, renders, closedSteps>>

cfgVars == <<cfg>>
callVars == <<hist, constructed, caller>>
setupVars == <<stage, render_product, proc, annotator>>
procVars == <<encoder, reaped, stdin, stdinBuf>>
loopVars == <<frame, frame_count, reports, steps>>
pipeVars == <<written, lastSize, part>>
simVars == <<simulator, simCloses>>
ghostVars == <<stdinCloses, cleanupCalls, cleanupDone>>
intVars == <<interrupts, intAt>>
countVars == <<popens, renders, closedSteps>>

\* frame.tobytes(): the number of bytes of a frame <<w, h, channels>>
ToBytes(f) == f[1] * f[2] * f[3]

\* The byte size of one frame as declared to ffmpeg: -pix_fmt bgr24 -s WxH
FrameBytes == cfg.width * cfg.height * BGR

Init ==
  /\ cfg \in [width : Widths, height : Heights, fps : Fps,
              camera_path : CameraPaths, annotator_type : AnnotatorTypes,
              transport : Transports, rtsp_url : RtspUrls,
              usd_path : BOOLEAN]
  /\ pc = "new"
  /\ hist = <<>>
  /\ outcome = "none"
  /\ constructed = FALSE
  /\ caller = "none"
  /\ exc = "none"
  /\ stage = "unset"
  /\ render_product = <<>>
  /\ proc = <<>>
  /\ annotator = FALSE
  /\ encoder = "none"
  /\ reaped = FALSE
  /\ stdin = "none"
  /\ stdinBuf = 0
  /\ frame = <<>>
  /\ frame_count = 0
  /\ reports = 0
  /\ steps = 0
  /\ written = 0
  /\ lastSize = 0
  /\ part = 0
  /\ simulator = "open"
  /\ simCloses = 0
  /\ stdinCloses = 0
  /\ cleanupCalls = 0
  /\ cleanupDone = 0
  /\ interrupts = 0
  /\ intAt = {}
  /\ popens = 0
  /\ renders = 0
  /\ closedSteps = 0

\* ------------------------------------------------------------ __init__
\* An exception leaves __init__: nothing catches it, cleanup() is not called.
InitRaise(e) ==
  /\ pc' = "idle"
  /\ outcome' = e

\* The caller evaluates SimulationStream(...): lines 54-65, then the branch
\* on usd_path.
Construct ==
  /\ pc = "new"
  /\ hist' = Append(hist, "init")
  /\ pc' = IF cfg.usd_path THEN "load_stage" ELSE "setup_camera"
  /\ UNCHANGED <<cfgVars, outcome, constructed, caller, exc, setupVars,
                 procVars, loopVars, pipeVars, simVars, ghostVars, intVars, countVars>>

\* _load_stage: open_stage, then self.stage = simulator.get_stage()
LoadStage ==
  /\ pc = "load_stage"
  /\ \E got \in {"ok", "none"} :
       /\ stage' = got
       /\ IF got = "none"
            THEN InitRaise("RuntimeError:stage")
            ELSE pc' = "setup_camera" /\ UNCHANGED outcome
  /\ UNCHANGED <<cfgVars, callVars, exc, render_product, proc, annotator,
                 procVars, loopVars, pipeVars, simVars, ghostVars, intVars, countVars>>

\* _setup_camera with the render product created before the prim is checked.
SetupCamera_RenderFirst ==
  /\ pc = "setup_camera"
  /\ \E got \in (IF stage = "ok" THEN {"ok"} ELSE {"ok", "none"}),
        found \in BOOLEAN :
       /\ stage' = got
       /\ IF got = "none"
            THEN InitRaise("AttributeError") /\ UNCHANGED <<render_product, renders>>
            ELSE /\ render_product' = <<cfg.width, cfg.height>>
                 /\ renders' = renders + 1
                 /\ IF ~found
                      THEN InitRaise("RuntimeError:camera")
                      ELSE pc' = "setup_ffmpeg" /\ UNCHANGED outcome
  /\ UNCHANGED <<cfgVars, callVars, exc, proc, annotator,
                 procVars, loopVars, pipeVars, simVars, ghostVars, intVars, popens, closedSteps>>

\* _setup_camera: get_stage, GetPrimAtPath, create.render_product
SetupCamera ==
  /\ pc = "setup_camera"
  /\ \E got \in (IF stage = "ok" THEN {"ok"} ELSE {"ok", "none"}),
        found \in BOOLEAN :
       /\ stage' = got
       /\ IF got = "none"
            THEN InitRaise("AttributeError") /\ UNCHANGED <<render_product, renders>>
            ELSE IF ~found
              THEN InitRaise("RuntimeError:camera") /\ UNCHANGED <<render_product, renders>>
              ELSE /\ render_product' = <<cfg.width, cfg.height>>
                   /\ renders' = renders + 1
                   /\ pc' = "setup_ffmpeg"
                   /\ UNCHANGED outcome
  /\ UNCHANGED <<cfgVars, callVars, exc, proc, annotator,
                 procVars, loopVars, pipeVars, simVars, ghostVars, intVars, popens, closedSteps>>

\* _setup_ffmpeg with the frame size given as height x width.
SetupFfmpeg_Swapped ==
  /\ pc = "setup_ffmpeg"
  /\ \E launched \in BOOLEAN :
       IF launched
         THEN /\ proc' = <<cfg.height, cfg.width, cfg.fps>>
              /\ encoder' = "running"
              /\ popens' = popens + 1
              /\ stdin' = "open"
              /\ pc' = "setup_annotator"
              /\ UNCHANGED outcome
         ELSE /\ InitRaise("OSError")
              /\ UNCHANGED <<proc, encoder, stdin, popens>>
  /\ UNCHANGED <<cfgVars, callVars, exc, stage, render_product, annotator,
                 reaped, stdinBuf, loopVars, pipeVars, simVars, ghostVars,
                 intVars, renders, closedSteps>>

\* _setup_ffmpeg: build the command, subprocess.Popen(command, stdin=PIPE)
SetupFfmpeg ==
  /\ pc = "setup_ffmpeg"
  /\ \E launched \in BOOLEAN :
       IF launched
         THEN /\ proc' = <<cfg.width, cfg.height, cfg.fps>>
              /\ encoder' = "running"
              /\ popens' = popens + 1
              /\ stdin' = "open"
              /\ pc' = "setup_annotator"
              /\ UNCHANGED outcome
         ELSE /\ InitRaise("OSError")
              /\ UNCHANGED <<proc, encoder, stdin, popens>>
  /\ UNCHANGED <<cfgVars, callVars, exc, stage, render_product, annotator,
                 reaped, stdinBuf, loopVars, pipeVars, simVars, ghostVars,
                 intVars, renders, closedSteps>>

\* _setup_annotator: AnnotatorRegistry.get_annotator, annotator.attach;
\* __init__ returns when it succeeds.
SetupAnnotator ==
  /\ pc = "setup_annotator"
  /\ \E supported \in BOOLEAN :
       IF supported
         THEN /\ annotator' = TRUE
              /\ constructed' = TRUE
              /\ pc' = "idle"
              /\ outcome' = "returned"
         ELSE /\ InitRaise("AnnotatorError")
              /\ UNCHANGED <<annotator, constructed>>
  /\ UNCHANGED <<cfgVars, hist, caller, exc, stage, render_product, proc,
                 procVars, loopVars, pipeVars, simVars, ghostVars, intVars, countVars>>

\* ------------------------------------------------------------- stream()
\* An exception raised inside the try block of stream(): KeyboardInterrupt
\* is caught by the except clause, anything else goes to the finally clause
\* and is re-raised after it.
TryRaise(e) ==
  IF e = "KeyboardInterrupt"
    THEN pc' = "except_kbd" /\ exc' = "none"
    ELSE pc' = "finally" /\ exc' = e

\* The caller calls stream() on a constructed instance.
CallStream ==
  /\ pc = "idle"
  /\ constructed
  /\ Len(hist) < MaxCalls
  /\ hist' = Append(hist, "stream")
  /\ pc' = "stream_entry"
  /\ outcome' = "none"
  /\ UNCHANGED <<cfgVars, constructed, caller, exc, setupVars, procVars,
                 loopVars, pipeVars, simVars, ghostVars, intVars, countVars>>

\* stream() launching the encoder again when it starts.
EnterTry_Relaunch ==
  /\ pc = "stream_entry"
  /\ pc' = "step"
  /\ frame_count' = 0
  /\ reports' = 0
  /\ frame' = <<>>
  /\ encoder' = "running"
  /\ stdin' = "open"
  /\ popens' = popens + 1
  /\ UNCHANGED <<cfgVars, callVars, outcome, exc, setupVars, reaped, stdinBuf,
                 steps, pipeVars, simVars, ghostVars, intVars, renders,
                 closedSteps>>

\* Lines 126-129: enter the try block, frame_count = 0.
EnterTry ==
  /\ pc = "stream_entry"
  /\ pc' = "step"
  /\ frame_count' = 0
  /\ reports' = 0
  /\ frame' = <<>>
  /\ UNCHANGED <<cfgVars, callVars, outcome, exc, setupVars, procVars, steps,
                 pipeVars, simVars, ghostVars, intVars, countVars>>

\* Line 136: self.rep.orchestrator.step().  The call is made whatever the
\* state of the simulator; on a closed simulator it may fail.  max caps the
\* number of steps explored.
StepUpTo(max) ==
  /\ pc = "step"
  /\ steps < max
  /\ closedSteps' = IF simulator = "closed" THEN closedSteps + 1
                                            ELSE closedSteps
  /\ \E ok \in (IF simulator = "open" THEN {TRUE} ELSE BOOLEAN) :
       IF ok
         THEN steps' = steps + 1 /\ pc' = "get_data" /\ UNCHANGED exc
         ELSE TryRaise("SimError") /\ UNCHANGED steps
  /\ UNCHANGED <<cfgVars, callVars, outcome, setupVars, procVars, frame,
                 frame_count, reports, pipeVars, simVars, ghostVars,
                 intVars, popens, renders>>

Step == StepUpTo(MaxSteps)

\* The same step in the long-run specification.
StepLong == StepUpTo(MaxFrames)

\* Line 139: frame = self.annotator.get_data(): RGBA data of the render
\* product's resolution.
GetData ==
  /\ pc = "get_data"
  /\ frame' = <<render_product[1], render_product[2], RGBA>>
  /\ pc' = "cvt"
  /\ UNCHANGED <<cfgVars, callVars, outcome, exc, setupVars, procVars,
                 frame_count, reports, steps, pipeVars, simVars, ghostVars,
                 intVars, countVars>>

\* The conversion left out: the RGBA data is passed on as it is.
CvtColor_Identity(f) == f

\* cv2.cvtColor(frame, cv2.COLOR_RGBA2BGR): same resolution, three channels
CvtColor(f) == <<f[1], f[2], BGR>>

\* Line 142
Convert ==
  /\ pc = "cvt"
  /\ frame' = CvtColor(frame)
  /\ pc' = "write"
  /\ UNCHANGED <<cfgVars, callVars, outcome, exc, setupVars, procVars,
                 frame_count, reports, steps, pipeVars, simVars, ghostVars,
                 intVars, countVars>>

\* The amounts a write(2) on the pipe may have transferred when it is cut
\* short: one representative, half of the request.
Partials(n) == IF n > 1 THEN {n \div 2} ELSE {}

\* Line 149: self.proc.stdin.write(frame.tobytes()) on the BufferedWriter.
\*  - closed file: ValueError;
\*  - the data fits the free part of the buffer: it is only buffered;
\*  - otherwise the buffer is flushed to the pipe first, then data longer
\*    than the buffer goes to the pipe directly and shorter data is buffered.
\* A write to the pipe of an exited child raises BrokenPipeError; a write may
\* be cut short (pipe full), which leaves the driver inside the write.
Write ==
  /\ pc = "write"
  /\ LET n == ToBytes(frame) IN
       IF stdin = "closed"
         THEN /\ TryRaise("ValueError")
              /\ UNCHANGED <<stdinBuf, pipeVars>>
       ELSE IF n <= BUFFER_SIZE - stdinBuf
         THEN /\ stdinBuf' = stdinBuf + n
              /\ pc' = "flush"
              /\ UNCHANGED <<exc, pipeVars>>
       ELSE IF encoder = "exited"
         THEN /\ TryRaise("BrokenPipeError")
              /\ UNCHANGED <<stdinBuf, pipeVars>>
       ELSE IF n <= BUFFER_SIZE
         THEN \* flush the buffered frame, buffer the new one
              /\ written' = written + 1
              /\ lastSize' = part + stdinBuf
              /\ part' = 0
              /\ stdinBuf' = n
              /\ pc' = "flush"
              /\ UNCHANGED exc
         ELSE \* the buffer (empty, or the rest of an earlier frame) is
              \* flushed, the frame goes to the pipe directly
              /\ stdinBuf' = 0
              /\ UNCHANGED exc
              /\ \/ /\ written' = written + 1 + (IF stdinBuf > 0 THEN 1 ELSE 0)
                    /\ lastSize' = n
                    /\ part' = 0
                    /\ pc' = "flush"
                 \/ \E p \in Partials(n) :
                    /\ written' = written + (IF stdinBuf > 0 THEN 1 ELSE 0)
                    /\ lastSize' = IF stdinBuf > 0 THEN part + stdinBuf
                                                   ELSE lastSize
                    /\ part' = p
                    /\ pc' = "write_mid"
  /\ UNCHANGED <<cfgVars, callVars, outcome, setupVars, encoder, reaped, stdin,
                 loopVars, simVars, ghostVars, intVars, countVars>>

\* The rest of a write that was cut short.
WriteRest ==
  /\ pc = "write_mid"
  /\ IF encoder = "exited"
       THEN TryRaise("BrokenPipeError") /\ UNCHANGED pipeVars
       ELSE /\ written' = written + 1
            /\ lastSize' = part + (ToBytes(frame) - part)
            /\ part' = 0
            /\ pc' = "flush"
            /\ UNCHANGED exc
  /\ UNCHANGED <<cfgVars, callVars, outcome, setupVars, procVars, loopVars,
                 simVars, ghostVars, intVars, countVars>>

\* The flush left out: the loop goes on with the frame still buffered.
Flush_NoOp ==
  /\ pc = "flush"
  /\ pc' = "metrics"
  /\ UNCHANGED <<cfgVars, callVars, outcome, exc, setupVars, procVars,
                 loopVars, pipeVars, simVars, ghostVars, intVars, countVars>>

\* Line 150: self.proc.stdin.flush(): the buffered bytes go to the pipe.
Flush ==
  /\ pc = "flush"
  /\ IF stdinBuf = 0
       THEN pc' = "metrics" /\ UNCHANGED <<exc, stdinBuf, pipeVars>>
     ELSE IF encoder = "exited"
       THEN TryRaise("BrokenPipeError") /\ UNCHANGED <<stdinBuf, pipeVars>>
     ELSE /\ UNCHANGED exc
          /\ \/ /\ written' = written + 1
                /\ lastSize' = part + stdinBuf
                /\ part' = 0
                /\ stdinBuf' = 0
                /\ pc' = "metrics"
             \/ \E p \in Partials(stdinBuf) :
                /\ part = 0
                /\ part' = p
                /\ stdinBuf' = stdinBuf - p
                /\ pc' = "flush"
                /\ UNCHANGED <<written, lastSize>>
  /\ UNCHANGED <<cfgVars, callVars, outcome, setupVars, encoder, reaped, stdin,
                 loopVars, simVars, ghostVars, intVars, countVars>>

\* The report tested before frame_count is incremented.
Metrics_TestBeforeIncrement ==
  /\ pc = "metrics"
  /\ frame_count' = frame_count + 1
  /\ reports' = IF frame_count % REPORT_EVERY = 0 THEN reports + 1
                                                   ELSE reports
  /\ pc' = "step"
  /\ UNCHANGED <<cfgVars, callVars, outcome, exc, setupVars, procVars, frame,
                 steps, pipeVars, simVars, ghostVars, intVars, countVars>>

\* Lines 153-160: frame_count += 1 and the report every REPORT_EVERY frames.
Metrics ==
  /\ pc = "metrics"
  /\ frame_count' = frame_count + 1
  /\ reports' = IF (frame_count + 1) % REPORT_EVERY = 0 THEN reports + 1
                                                         ELSE reports
  /\ pc' = "step"
  /\ UNCHANGED <<cfgVars, callVars, outcome, exc, setupVars, procVars, frame,
                 steps, pipeVars, simVars, ghostVars, intVars, countVars>>

\* Lines 162-163: except KeyboardInterrupt: print(...)
ExceptKbd ==
  /\ pc = "except_kbd"
  /\ pc' = "finally"
  /\ UNCHANGED <<cfgVars, callVars, outcome, exc, setupVars, procVars,
                 loopVars, pipeVars, simVars, ghostVars, intVars, countVars>>

\* Lines 164-165: finally: self.cleanup()
Finally ==
  /\ pc = "finally"
  /\ caller' = "stream"
  /\ cleanupCalls' = cleanupCalls + 1
  /\ pc' = "cl_close"
  /\ UNCHANGED <<cfgVars, hist, constructed, outcome, exc, setupVars,
                 procVars, loopVars, pipeVars, simVars, stdinCloses,
                 cleanupDone, intVars, countVars>>

\* ------------------------------------------------------------ cleanup()
\* The caller calls cleanup() itself, on an instance whose __init__ has
\* returned or has raised.
CallCleanup ==
  /\ pc = "idle"
  /\ Len(hist) < MaxCalls
  /\ hist' = Append(hist, "cleanup")
  /\ caller' = "direct"
  /\ cleanupCalls' = cleanupCalls + 1
  /\ outcome' = "none"
  /\ pc' = "cl_close"
  /\ UNCHANGED <<cfgVars, constructed, exc, setupVars, procVars, loopVars,
                 pipeVars, simVars, stdinCloses, cleanupDone, intVars, countVars>>

\* An exception leaves cleanup(): it reaches the caller, through stream()'s
\* finally clause when cleanup() was called from there, and replaces the
\* exception that was pending.
CleanupRaise(e) ==
  /\ pc' = "idle"
  /\ outcome' = e
  /\ exc' = "none"
  /\ caller' = "none"

\* cleanup() without the hasattr guard: self.proc of an instance that never
\* launched the encoder raises AttributeError.
CleanupCloseStdin_NoHasattr ==
  /\ pc = "cl_close"
  /\ IF proc = <<>>
       THEN /\ CleanupRaise("AttributeError")
            /\ UNCHANGED <<stdin, stdinBuf, pipeVars, stdinCloses>>
     ELSE IF stdin = "closed"
       THEN /\ pc' = "cl_wait"
            /\ UNCHANGED <<outcome, exc, caller, stdin, stdinBuf, pipeVars,
                           stdinCloses>>
     ELSE IF stdinBuf > 0 /\ encoder = "exited"
       THEN /\ stdin' = "closed"
            /\ stdinCloses' = stdinCloses + 1
            /\ CleanupRaise("BrokenPipeError")
            /\ UNCHANGED <<stdinBuf, pipeVars>>
     ELSE /\ stdin' = "closed"
          /\ stdinCloses' = stdinCloses + 1
          /\ stdinBuf' = 0
          /\ written' = IF stdinBuf > 0 THEN written + 1 ELSE written
          /\ lastSize' = IF stdinBuf > 0 THEN part + stdinBuf ELSE lastSize
          /\ part' = IF stdinBuf > 0 THEN 0 ELSE part
          /\ pc' = "cl_wait"
          /\ UNCHANGED <<outcome, exc, caller>>
  /\ UNCHANGED <<cfgVars, hist, constructed, setupVars, encoder, reaped,
                 loopVars, simVars, cleanupCalls, cleanupDone, intVars, countVars>>

\* Lines 170-171: if hasattr(self, 'proc'): self.proc.stdin.close().
\* Closing a closed file does nothing.  Closing an open one flushes the
\* buffer first; the pipe is closed even when that flush fails, and the
\* error is raised afterwards.
CleanupCloseStdin ==
  /\ pc = "cl_close"
  /\ IF proc = <<>>
       THEN /\ pc' = "cl_sim"
            /\ UNCHANGED <<outcome, exc, caller, stdin, stdinBuf, pipeVars,
                           stdinCloses>>
     ELSE IF stdin = "closed"
       THEN /\ pc' = "cl_wait"
            /\ UNCHANGED <<outcome, exc, caller, stdin, stdinBuf, pipeVars,
                           stdinCloses>>
     ELSE IF stdinBuf > 0 /\ encoder = "exited"
       THEN /\ stdin' = "closed"
            /\ stdinCloses' = stdinCloses + 1
            /\ CleanupRaise("BrokenPipeError")
            /\ UNCHANGED <<stdinBuf, pipeVars>>
     ELSE /\ stdin' = "closed"
          /\ stdinCloses' = stdinCloses + 1
          /\ stdinBuf' = 0
          /\ written' = IF stdinBuf > 0 THEN written + 1 ELSE written
          /\ lastSize' = IF stdinBuf > 0 THEN part + stdinBuf ELSE lastSize
          /\ part' = IF stdinBuf > 0 THEN 0 ELSE part
          /\ pc' = "cl_wait"
          /\ UNCHANGED <<outcome, exc, caller>>
  /\ UNCHANGED <<cfgVars, hist, constructed, setupVars, encoder, reaped,
                 loopVars, simVars, cleanupCalls, cleanupDone, intVars, countVars>>

\* proc.wait() giving up after a timeout: cleanup() goes on although the
\* child has not exited.
CleanupWait_Timeout ==
  /\ pc = "cl_wait"
  /\ reaped' = (reaped \/ encoder = "exited")
  /\ pc' = "cl_sim"
  /\ UNCHANGED <<cfgVars, callVars, outcome, exc, setupVars, encoder, stdin,
                 stdinBuf, loopVars, pipeVars, simVars, ghostVars, intVars,
                 countVars>>

\* cleanup() without the wait: the child is not waited for.
CleanupWait_NoWait ==
  /\ pc = "cl_wait"
  /\ pc' = "cl_sim"
  /\ UNCHANGED <<cfgVars, callVars, outcome, exc, setupVars, procVars,
                 loopVars, pipeVars, simVars, ghostVars, intVars, countVars>>

\* Line 172: self.proc.wait(): returns once the child has exited (at once
\* when it was already waited for); no timeout.
CleanupWait ==
  /\ pc = "cl_wait"
  /\ reaped \/ encoder = "exited"
  /\ reaped' = TRUE
  /\ pc' = "cl_sim"
  /\ UNCHANGED <<cfgVars, callVars, outcome, exc, setupVars, encoder, stdin,
                 stdinBuf, loopVars, pipeVars, simVars, ghostVars, intVars, countVars>>

\* Lines 173-175: self.simulator.close(), then cleanup() returns; stream()
\* then re-raises the exception pending in its finally clause, if any.
CleanupCloseSim ==
  /\ pc = "cl_sim"
  /\ simulator' = "closed"
  /\ simCloses' = simCloses + 1
  /\ cleanupDone' = cleanupDone + 1
  /\ pc' = "idle"
  /\ outcome' = IF caller = "stream" /\ exc # "none" THEN exc ELSE "returned"
  /\ exc' = "none"
  /\ caller' = "none"
  /\ UNCHANGED <<cfgVars, hist, constructed, setupVars, procVars, loopVars,
                 pipeVars, stdinCloses, cleanupCalls, intVars, countVars>>

\* --------------------------------------------------------- environment
InInit == pc \in {"load_stage", "setup_camera", "setup_ffmpeg",
                  "setup_annotator"}
TryPositions == {"step", "get_data", "cvt", "write", "write_mid", "flush",
                 "metrics"}
CleanupPositions == {"cl_close", "cl_wait", "cl_sim"}
InTry == pc \in TryPositions
InCleanup == pc \in CleanupPositions

\* SIGINT: Python raises KeyboardInterrupt at the driver's current position.
\* Inside the try block it is caught (lines 162-163); in the except clause
\* it goes to the finally clause and is re-raised after cleanup(); before
\* the try block, at the call of cleanup() and inside cleanup() or __init__
\* nothing catches it.
Interrupt ==
  /\ interrupts < MaxInterrupts
  /\ interrupts' = interrupts + 1
  /\ intAt' = intAt \cup {pc}
  /\ \/ /\ InTry
        /\ TryRaise("KeyboardInterrupt")
        /\ UNCHANGED <<outcome, caller>>
     \/ /\ pc = "except_kbd"
        /\ pc' = "finally"
        /\ exc' = "KeyboardInterrupt"
        /\ UNCHANGED <<outcome, caller>>
     \/ /\ InInit \/ pc \in {"stream_entry", "finally"} \/ InCleanup
        /\ CleanupRaise("KeyboardInterrupt")
  /\ UNCHANGED <<cfgVars, hist, constructed, setupVars, procVars, loopVars,
                 pipeVars, simVars, ghostVars, countVars>>

\* The child exits: on its own (crash, lost connection) or because it read
\* end-of-file on its stdin.
EncoderExit ==
  /\ encoder = "running"
  /\ encoder' = "exited"
  /\ UNCHANGED <<cfgVars, pc, callVars, outcome, exc, setupVars, reaped, stdin,
                 stdinBuf, loopVars, pipeVars, simVars, ghostVars, intVars, countVars>>

\* The child hangs: it neither reads its stdin nor exits any more.
EncoderWedge ==
  /\ encoder = "running"
  /\ encoder' = "wedged"
  /\ UNCHANGED <<cfgVars, pc, callVars, outcome, exc, setupVars, reaped, stdin,
                 stdinBuf, loopVars, pipeVars, simVars, ghostVars, intVars, countVars>>

Next ==
  \/ Construct
  \/ LoadStage
  \/ SetupCamera
  \/ SetupFfmpeg
  \/ SetupAnnotator
  \/ CallStream
  \/ EnterTry
  \/ Step
  \/ GetData
  \/ Convert
  \/ Write
  \/ WriteRest
  \/ Flush
  \/ Metrics
  \/ ExceptKbd
  \/ Finally
  \/ CallCleanup
  \/ CleanupCloseStdin
  \/ CleanupWait
  \/ CleanupCloseSim
  \/ Interrupt
  \/ EncoderExit
  \/ EncoderWedge

Spec == Init /\ [][Next]_vars

\* The long run of one stream() call: a successfully set up instance whose
\* loop runs for up to MaxFrames steps, until an interrupt or the death of
\* the encoder ends it.
InitReport ==
  /\ Init
  /\ cfg.usd_path = FALSE

\* The caller calls stream() once.
CallStreamOnce ==
  /\ hist = <<"init">>
  /\ CallStream

NextReport ==
  \/ Construct
  \/ SetupCamera
  \/ SetupFfmpeg
  \/ SetupAnnotator
  \/ CallStreamOnce
  \/ EnterTry
  \/ StepLong
  \/ GetData
  \/ Convert
  \/ Write
  \/ WriteRest
  \/ Flush
  \/ Metrics
  \/ ExceptKbd
  \/ Finally
  \/ CleanupCloseStdin
  \/ CleanupWait
  \/ CleanupCloseSim
  \/ Interrupt
  \/ EncoderExit

SpecReport == InitReport /\ [][NextReport]_vars

\* ---------------------------------------------------------------- claims
Last(q) == q[Len(q)]
NumStreams == Cardinality({i \in DOMAIN hist : hist[i] = "stream"})

\* The caller has only constructed the instance and, when that succeeded,
\* called stream() once; the last of these calls has ended.
SetupThenStreamEnded ==
  /\ pc = "idle"
  /\ \/ hist = <<"init">> /\ ~constructed
     \/ hist = <<"init", "stream">>

\* The errors the driver treats as fatal (KeyboardInterrupt is not one).
SetupErrors == {"RuntimeError:stage", "RuntimeError:camera", "AttributeError",
                "OSError", "AnnotatorError"}
FatalErrors == SetupErrors \cup {"BrokenPipeError"}

\* C1: on every exit path of setup followed by stream() (normal, interrupted,
\* fatal error at setup time or in the loop) cleanup() has been executed
\* exactly once: never zero times, never more than once.
C1_CleanupExactlyOnce ==
  /\ SetupThenStreamEnded => cleanupCalls = 1
  /\ hist \in {<<"init">>, <<"init", "stream">>} => cleanupCalls <= 1

\* C2: two cleanup() calls in a row raise no error and release nothing a
\* second time: the input channel is closed at most once and the simulator
\* instance is closed at most once.
C2_CleanupIdempotent ==
  (Len(hist) >= 2 /\ Last(hist) = "cleanup"
                  /\ hist[Len(hist) - 1] = "cleanup") =>
     /\ stdinCloses <= 1
     /\ simCloses <= 1
     /\ outcome \in {"none", "returned", "KeyboardInterrupt"}

\* The render product and the attached annotator live inside the simulator
\* instance; the driver has no call that releases them separately, they go
\* with simulator.close().
AcquiredAllReleasedOnce ==
  /\ simCloses = 1 /\ simulator = "closed"
  /\ proc # <<>> => /\ stdinCloses = 1 /\ stdin = "closed"
                    /\ reaped /\ encoder = "exited"
  /\ proc = <<>> => /\ stdinCloses = 0 /\ stdin = "none"
                    /\ ~reaped /\ encoder = "none"

C4_FatalAfterCleanup ==
  (SetupThenStreamEnded /\ outcome \in FatalErrors) =>
     /\ cleanupDone >= 1
     /\ encoder \notin {"running", "wedged"}

\* C5: when the encoder process has exited while the loop runs, the next
\* write or flush raises the encoder write error, the loop ends, and cleanup
\* still completes: input channel closed, child waited for, simulator closed.
C5_EncoderExitCleanupCompletes ==
  (hist = <<"init", "stream">> /\ pc = "idle"
                               /\ outcome = "BrokenPipeError") =>
     /\ cleanupDone = 1
     /\ stdin = "closed" /\ reaped /\ simulator = "closed"

\* C6: when the camera is not found, setup fails with that error, no encoder
\* process has been launched and no render product has been created.
C6_CameraNotFoundNoEncoder ==
  (pc = "idle" /\ outcome = "RuntimeError:camera") =>
     /\ ~constructed
     /\ encoder = "none" /\ stdin = "none" /\ proc = <<>>
     /\ render_product = <<>> /\ ~annotator

C6_Witness ==
  /\ pc = "idle" /\ outcome = "RuntimeError:camera"
  /\ hist = <<"init">> /\ stage = "ok"

\* C7: after a setup that failed at any point, cleanup() raises no error
\* (an interrupt apart), skips the resources that were never acquired and
\* releases those that were.
C7_CleanupAfterPartialSetup ==
  (hist = <<"init", "cleanup">> /\ ~constructed) =>
     /\ outcome \in {"none", "returned", "KeyboardInterrupt"}
     /\ proc = <<>> => stdinCloses = 0 /\ ~reaped /\ pc # "cl_wait"
     /\ (pc = "idle" /\ outcome = "returned") => AcquiredAllReleasedOnce

C7_Witness ==
  /\ hist = <<"init", "cleanup">> /\ ~constructed
  /\ pc = "idle" /\ outcome = "returned"
  /\ proc = <<>> /\ simCloses = 1

\* C8: an interrupt delivered while stream() runs, anywhere in the loop
\* iteration or in cleanup, makes stream() return normally with cleanup
\* run to completion.
C8_InterruptGraceful ==
  (hist = <<"init", "stream">> /\ pc = "idle"
      /\ intAt # {} /\ intAt \subseteq (TryPositions \cup CleanupPositions)) =>
     /\ outcome = "returned"
     /\ cleanupDone = 1

\* C9: one frame of exactly width x height x 3 bytes is written per
\* simulation step: at an iteration boundary the steps completed, the frames
\* written in full and frame_count are equal, and at any moment (also when
\* an interrupt or an error has ended the loop) steps and frames written
\* differ by at most the one frame in flight.
C9_OneFramePerStep ==
  NumStreams <= 1 =>
     /\ written <= steps /\ steps <= written + 1
     /\ lastSize = (IF written > 0 THEN FrameBytes ELSE 0)
     /\ part < FrameBytes /\ stdinBuf \in {0, FrameBytes, FrameBytes - part}
     /\ pc = "step" => steps = written /\ written = frame_count
     /\ pc = "metrics" => steps = written /\ written = frame_count + 1

C9_Witness ==
  /\ hist = <<"init", "stream">> /\ pc = "step"
  /\ steps = 2 /\ written = 2 /\ frame_count = 2 /\ lastSize = FrameBytes

\* C10: an interrupt takes effect only at an iteration boundary, never in
\* the middle of a write: the encoder never receives a partial frame
\* followed by the close of its input channel.
C10_NoPartialFrameAtClose ==
  (hist = <<"init", "stream">> /\ stdin = "closed" /\ interrupts >= 1) =>
     part = 0

\* C11: the throughput report is printed exactly once per 100 processed
\* frames: once right after the frame that makes frame_count a positive
\* multiple of 100, and never after any other frame (never at count 0).
C11_ReportEvery100 ==
  /\ [](reports = frame_count \div 100)
  /\ [][reports' # reports =>
          /\ pc = "metrics"
          /\ reports' = reports + 1
          /\ frame_count' = frame_count + 1
          /\ frame_count' % 100 = 0 /\ frame_count' >= 100
          /\ frame_count' = written]_vars
  /\ [][(frame_count' # frame_count /\ frame_count' % 100 = 0
                                     /\ frame_count' > 0) =>
          reports' = reports + 1]_vars

C11_Witness ==
  /\ hist = <<"init", "stream">>
  /\ frame_count = 200 /\ reports = 2 /\ written = 200

\* C12: at most one encoder process and at most one render product exist
\* per instance: whatever the caller does with the instance, Popen and
\* create.render_product have each been called at most once, and self.proc
\* and self.render_product are those of that one call.
C12_OneEncoderOneRenderProduct ==
  /\ popens <= 1 /\ renders <= 1
  /\ (proc # <<>>) <=> (popens = 1)
  /\ (render_product # <<>>) <=> (renders = 1)
  /\ (encoder # "none") <=> (popens = 1)
  /\ popens = 1 => renders = 1

C12_Witness ==
  /\ Len(hist) = MaxCalls /\ NumStreams >= 1 /\ pc = "idle"
  /\ cleanupDone >= 1
  /\ popens = 1 /\ renders = 1

\* C13: the resolution of the render product and the frame size (and rate)
\* given to ffmpeg are those of the configuration, so they agree whenever
\* both exist; and no step of setup, stream() or cleanup() changes the
\* configuration.
C13_ResolutionAgreesConfigFixed ==
  /\ [](render_product # <<>> =>
          render_product = <<cfg.width, cfg.height>>)
  /\ [](proc # <<>> => proc = <<cfg.width, cfg.height, cfg.fps>>)
  /\ []((render_product # <<>> /\ proc # <<>>) =>
          render_product[1] = proc[1] /\ render_product[2] = proc[2])
  /\ [][cfg' = cfg]_vars

C13_Witness ==
  /\ render_product = <<64, 48>> /\ proc = <<64, 48, 60>>
  /\ NumStreams >= 1 /\ cleanupDone >= 1 /\ pc = "idle"

\* C14: cleanup() closes the encoder's input channel, then waits for the
\* encoder to exit, then closes the simulator, in that order; the wait has
\* no timeout, so as long as a launched encoder has not exited cleanup()
\* does not return and the simulator is not closed.
C14_CleanupOrderNoTimeout ==
  /\ [][(stdin = "open" /\ stdin' = "closed") =>
          pc = "cl_close" /\ ~reaped]_vars
  /\ [][(~reaped /\ reaped') =>
          pc = "cl_wait" /\ stdin = "closed" /\ encoder = "exited"]_vars
  /\ [][simCloses' # simCloses =>
          /\ pc = "cl_sim"
          /\ proc # <<>> => stdin = "closed" /\ reaped]_vars
  /\ [][(proc # <<>> /\ encoder # "exited") =>
          simCloses' = simCloses /\ cleanupDone' = cleanupDone]_vars

C14_Witness ==
  /\ pc = "cl_wait" /\ encoder = "wedged" /\ stdin = "closed"
  /\ ~reaped /\ simulator = "open" /\ simCloses = 0

\* C15: in each iteration the driver advances the simulator, fetches the
\* frame, converts it, writes it and flushes, in that order; the simulator
\* is advanced to the next step only when the frames of all earlier steps
\* have been written and flushed, and never while a write or flush is
\* pending.
C15_StepFetchConvertWriteFlush ==
  /\ [][(pc' # pc) =>
          /\ pc' = "get_data" => pc = "step" /\ steps' = steps + 1
          /\ pc' = "cvt" => pc = "get_data"
          /\ pc' = "write" => pc = "cvt" /\ frame'[3] = BGR
          /\ pc' = "write_mid" => pc = "write"
          /\ pc' = "flush" => pc \in {"write", "write_mid"}
          /\ pc' = "metrics" => pc = "flush" /\ stdinBuf' = 0
          /\ pc' = "step" => pc \in {"stream_entry", "metrics"}]_vars
  /\ [][(NumStreams <= 1 /\ steps' # steps) =>
          /\ pc = "step" /\ steps' = steps + 1
          /\ written = steps /\ stdinBuf = 0 /\ part = 0]_vars
  /\ [][(pc \in {"get_data", "cvt", "write", "write_mid", "flush"}) =>
          steps' = steps]_vars

C15_Witness ==
  /\ hist = <<"init", "stream">> /\ pc = "get_data"
  /\ steps = 2 /\ written = 1 /\ stdinBuf = 0 /\ part = 0

\* C16: once cleanup() has run to completion, a later stream() call on the
\* same instance makes no simulation step on the closed simulator, writes no
\* frame and does not close the simulator again.
C16_NothingAfterCleanup ==
  [][(cleanupDone >= 1 /\ Last(hist) = "stream") =>
       /\ closedSteps' = closedSteps /\ steps' = steps
       /\ written' = written /\ part' = part
       /\ simCloses' = simCloses]_vars
====
